---- MODULE Spec2Model ----
(***************************************************************************)
(* Country cache service: the synchronisation pipeline                     *)
(* (Service.create_country), the query operations (fetch_by_name,          *)
(* delete_country, status, serve_file) and the HTTP error mapping          *)
(* (register_error_handler).                                               *)
(*                                                                         *)
(* The database is the committed store (countries, status_rows) plus, per  *)
(* request session, the statements executed but not yet committed (tx).    *)
(* A sync is a sequence of steps (pc); other requests are single steps.    *)
(***************************************************************************)
EXTENDS Integers, Sequences, FiniteSets, TLC

\* ------------------------------------------------------------------ bounds
MaxSyncs == 2        \* sync requests started in one behaviour
MaxDeletes == 2      \* delete requests answered 200 in one behaviour

\* ------------------------------------------------------------ input values
\* A name is a sequence of characters, so that lower() is computed.
Ng == <<"N", "g">>
ng == <<"n", "g">>
NG == <<"N", "G">>
Gh == <<"G", "h">>
Aq == <<"A", "q">>
Zz == <<"Z", "z">>

QueryNames == {Ng, ng, NG, Gh, Zz}

\* str.lower() / sa.func.lower on the characters used here
LowerChar(c) ==
    CASE c = "N" -> "n"
      [] c = "G" -> "g"
      [] c = "A" -> "a"
      [] c = "Z" -> "z"
      [] c = "D" -> "d"
      [] c = "E" -> "e"
      [] c = "F" -> "f"
      [] c = "H" -> "h"
      [] c = "I" -> "i"
      [] c = "C" -> "c"
      [] c = "P" -> "p"
      [] c = "R" -> "r"
      [] c = "S" -> "s"
      [] c = "U" -> "u"
      [] OTHER -> c

Lower(name) == [k \in DOMAIN name |-> LowerChar(name[k])]

\* The characters of the region and currency words used here.
Chars(w) ==
    CASE w = "Africa" -> <<"A", "f", "r", "i", "c", "a">>
      [] w = "africa" -> <<"a", "f", "r", "i", "c", "a">>
      [] w = "AFRICA" -> <<"A", "F", "R", "I", "C", "A">>
      [] w = "Polar" -> <<"P", "o", "l", "a", "r">>
      [] w = "NGN" -> <<"N", "G", "N">>
      [] w = "GHS" -> <<"G", "H", "S">>
      [] w = "USD" -> <<"U", "S", "D">>
      [] w = "usd" -> <<"u", "s", "d">>
      [] w = "EUR" -> <<"E", "U", "R">>
      [] w = "XXX" -> <<"X", "X", "X">>
      [] OTHER -> <<>>

\* The query parameters of GET /countries; <<>> is an absent parameter.
RegionParams == {<<>>, <<"">>, <<"AFRICA">>, <<"Polar">>}
CurrencyParams == {<<>>, <<"usd">>, <<"EUR">>}
SortParams == {<<>>, <<"1">>, <<"0">>, <<"gdp_desc">>}

\* Records of the validated country list (CountryApiItem.model_dump()).
\* currencies is the sequence of currency codes; None and [] are both <<>>.
Item(n, pop, cap, reg, curr, fl, ind) ==
    [name |-> n, population |-> pop, capital |-> cap, region |-> reg,
     currencies |-> curr, flag |-> fl, independent |-> ind]

ItemNg  == Item(Ng, 2, "Abuja", "Africa", <<"NGN">>, "ng.svg", TRUE)
ItemNg2 == Item(Ng, 4, "Lagos", "Africa", <<"NGN">>, "ng2.svg", TRUE)
Itemng  == Item(ng, 1, "None", "africa", <<"USD">>, "x.svg", FALSE)
ItemGh  == Item(Gh, 3, "Accra", "Africa", <<"GHS", "USD">>, "gh.svg", TRUE)
ItemAq  == Item(Aq, 0, "None", "Polar", <<>>, "aq.svg", FALSE)
ItemZz  == Item(Zz, 5, "Zed", "None", <<"XXX">>, "zz.svg", TRUE)

\* The country lists the directory API answers with.
CountryLists ==
    { <<ItemNg, ItemAq, ItemGh>>,
      <<Itemng, ItemNg2>>,
      <<ItemZz, ItemAq>> }

\* The rates tables the exchange-rate API answers with (rates: dict[str, float]).
RatesA == [c \in {"NGN", "GHS", "USD"} |-> IF c = "NGN" THEN 2 ELSE 1]
RatesB == [c \in {"NGN", "USD"} |-> IF c = "NGN" THEN 1 ELSE 2]
RatesZ == [c \in {"NGN", "GHS", "USD"} |->
              IF c = "NGN" THEN 0 ELSE IF c = "GHS" THEN -1 ELSE 1]

RateTables == {RatesA, RatesB, RatesZ}

\* Values random.uniform(1000, 2000) is drawn from here: both ends, even so
\* that the division by every rate above is exact.
Factors == {1000, 2000}

Sessions == {1}

\* ---------------------------------------------------------------- state
VARIABLES
    name_unique,   \* the countries table has a unique index on name
    countries,     \* committed rows of table countries
    status_rows,   \* committed rows of table status
    image,         \* the summary image file: <<>> or <<its content>>
    clock,         \* datetime.now(), one tick per sync
    sync,          \* per session: the running create_country call
    gone,          \* lower-case names deleted and not written since
    prev,          \* the upstream responses of the sync committed last
    repeat,        \* the sync committed last repeated the one before it
    succeeded,     \* a sync has returned True
    nsyncs,        \* syncs started
    ndeletes       \* deletes answered 200

vars == <<name_unique, countries, status_rows, image, clock, sync, gone,
          prev, repeat, succeeded, nsyncs, ndeletes>>

\* ------------------------------------------------------------ HTTP layer
\* The status code the registered exception handlers answer with; an
\* exception no handler is registered for is answered 500.
HttpStatus(exc) ==
    CASE exc = "ValidationError" -> 400
      [] exc = "RequestValidationError" -> 400
      [] exc = "NotFoundError" -> 404
      [] exc = "AlreadyExist" -> 409
      [] exc = "ServiceUnavailableError" -> 503
      [] OTHER -> 500

\* The outcome of a finished create_country call: the exception and the
\* response, the step that raised (at), the statements the rollback dropped
\* (undone) and the rate lookups the call made (calls).
Response(exc, at, undone, calls) ==
    [exc |-> exc, code |-> IF exc = "ok" THEN 200 ELSE HttpStatus(exc),
     at |-> at, undone |-> undone, calls |-> calls]

NoResponse == [exc |-> "none", code |-> 0, at |-> "none", undone |-> 0, calls |-> 0]

\* ------------------------------------------------------ upstream clients
\* The failure of the GET passed on as it is.
FetchError_Raw(kind) == kind

\* What _fetch_country_data / _fetch_currency_data raise when the GET fails:
\* aiohttp.ClientError (network error, raise_for_status) and any other
\* exception are both replaced by ServiceUnavailableError.
FetchFailures == {"ClientError", "Exception"}

FetchError(kind) == "ServiceUnavailableError"

\* What model_validate raises on a payload of the wrong shape; neither
\* create_country nor fetch_rate replaces it.
ValidateError == "ValidationError"

\* rates.get(currency_code): <<>> for None, <<rate>> otherwise
RateOf(table, code) == IF code \in DOMAIN table THEN <<table[code]>> ELSE <<>>

\* ---------------------------------------------------------- GDP estimator
\* The factor multiplied by the rate instead of divided by it.
compute_estimated_gdp_Times(population, exchange_rate, random_factor) ==
    population * random_factor * exchange_rate

\* (population * random_factor) / exchange_rate, exchange_rate # 0
compute_estimated_gdp(population, exchange_rate, random_factor) ==
    IF exchange_rate > 0
    THEN (population * random_factor) \div exchange_rate
    ELSE 0 - ((population * random_factor) \div (0 - exchange_rate))

\* ------------------------------------------------------------- the store
\* id = uuid4() of a row inserted at time t: fresh, and kept by updates
NewId(name, t) == <<name, t>>

\* The values of insert(Country).values(...) for one (country, currency).
CountryValues(item, code, rate, gdp, t) ==
    [name |-> item.name, capital |-> item.capital, region |-> item.region,
     population |-> item.population, currency_code |-> code,
     exchange_rate |-> rate, estimated_gdp |-> gdp, flag_url |-> item.flag,
     independent |-> item.independent, last_refreshed_at |-> t]

NewRow(v) ==
    [id |-> NewId(v.name, v.last_refreshed_at), name |-> v.name,
     capital |-> v.capital, region |-> v.region, population |-> v.population,
     currency_code |-> v.currency_code, exchange_rate |-> v.exchange_rate,
     estimated_gdp |-> v.estimated_gdp, flag_url |-> v.flag_url,
     independent |-> v.independent, last_refreshed_at |-> v.last_refreshed_at]

\* ON CONFLICT DO NOTHING: the first currency of a country stays.
UpdatedRow_Keep(r, v) == r

\* The conflicting row is replaced by a new row instead of updated.
UpdatedRow_Replace(r, v) == NewRow(v)

UpdatedRow(r, v) ==
    [r EXCEPT !.capital = v.capital, !.region = v.region,
              !.population = v.population, !.currency_code = v.currency_code,
              !.exchange_rate = v.exchange_rate,
              !.estimated_gdp = v.estimated_gdp, !.flag_url = v.flag_url,
              !.independent = v.independent,
              !.last_refreshed_at = v.last_refreshed_at]

\* A plain INSERT: the conflict on name is not looked at.
UpsertCountry_Insert(rows, v) == rows \cup {NewRow(v)}

\* INSERT ... ON CONFLICT (name) DO UPDATE SET ...
UpsertCountry(rows, v) ==
    IF \E r \in rows : r.name = v.name
    THEN {IF r.name = v.name THEN UpdatedRow(r, v) ELSE r : r \in rows}
    ELSE rows \cup {NewRow(v)}

\* A plain INSERT of the status row.
UpsertStatus_Insert(srows, t) ==
    srows \cup {[name |-> "api_fetch", last_refreshed_at |-> t]}

\* INSERT INTO status ... ON CONFLICT (name) DO UPDATE SET last_refreshed_at
UpsertStatus(srows, t) ==
    IF \E r \in srows : r.name = "api_fetch"
    THEN {IF r.name = "api_fetch" THEN [r EXCEPT !.last_refreshed_at = t] ELSE r
            : r \in srows}
    ELSE srows \cup {[name |-> "api_fetch", last_refreshed_at |-> t]}

Db(rows, srows) == [countries |-> rows, status_rows |-> srows]

\* One executed statement of a transaction, applied to the committed store.
ApplyStmt(db, stmt) ==
    IF stmt.kind = "country"
    THEN Db(UpsertCountry(db.countries, stmt.values), db.status_rows)
    ELSE Db(db.countries, UpsertStatus(db.status_rows, stmt.at))

RECURSIVE ApplyTx(_, _)
ApplyTx(db, tx) ==
    IF tx = <<>> THEN db ELSE ApplyTx(ApplyStmt(db, Head(tx)), Tail(tx))

\* session.commit(): every statement of the transaction becomes visible
CommitTx(db, tx) == ApplyTx(db, tx)

\* A rollback that lets the executed statements through.
RollbackTx_Flush(db, tx) == ApplyTx(db, tx)

\* session.rollback(): the statements of the transaction are dropped
RollbackTx(db, tx) == db

\* ----------------------------------------------------------- the queries
RECURSIVE TopGdp(_, _)
TopGdp(rows, n) ==
    IF rows = {} \/ n = 0 THEN <<>>
    ELSE LET r == CHOOSE x \in rows :
                      \A y \in rows : x.estimated_gdp >= y.estimated_gdp
         IN <<r.estimated_gdp>> \o TopGdp(rows \ {r}, n - 1)

TopLimit == 5

\* Service.status()
status(db) ==
    [total_countries |-> Cardinality(db.countries),
     last_refreshed_at |->
        IF \E r \in db.status_rows : r.name = "api_fetch"
        THEN <<(CHOOSE r \in db.status_rows : r.name = "api_fetch").last_refreshed_at>>
        ELSE <<>>,
     top_5 |-> TopGdp(db.countries, TopLimit)]

\* Service.fetch_by_name(): scalar_one_or_none() on the rows whose
\* lower(name) equals name.lower()
NameMatches(rows, name) == {r \in rows : Lower(r.name) = Lower(name)}

fetch_by_name(rows, name) ==
    LET m == NameMatches(rows, name) IN
    IF Cardinality(m) > 1 THEN [exc |-> "MultipleResultsFound", row |-> {}]
    ELSE IF m = {} THEN [exc |-> "NotFoundError", row |-> {}]
    ELSE [exc |-> "ok", row |-> m]

\* Service.serve_file(): os.path.exists(file_path)
serve_file(img) == IF img = <<>> THEN "NotFoundError" ELSE "ok"

\* ------------------------------------------------------------------ Init
IdleSync ==
    [pc |-> "idle", list |-> <<>>, ci |-> 1, cj |-> 1, tx |-> <<>>, now |-> 0,
     resolved |-> {}, tables |-> {}, calls |-> 0, rates |-> <<>>,
     rate |-> <<>>, data |-> <<>>, result |-> NoResponse]

\* init_db() creates the tables that do not exist yet and leaves an existing
\* table as it is: the table db.py declares has no unique index on name,
\* the table the upsert of create_country is written for has one.
Init ==
    /\ name_unique \in BOOLEAN
    /\ countries = {}
    /\ status_rows = {}
    /\ image = <<>>
    /\ clock = 0
    /\ sync = [s \in Sessions |-> IdleSync]
    /\ gone = {}
    /\ prev = <<>>
    /\ repeat = FALSE
    /\ succeeded = FALSE
    /\ nsyncs = 0
    /\ ndeletes = 0

\* ------------------------------------------------- create_country: steps
Committed == Db(countries, status_rows)

\* The commit is left out.
NextPc_NoCommit(pc) ==
    CASE pc = "loop" -> "status"
      [] pc = "status" -> "readback"
      [] pc = "readback" -> "render"
      [] OTHER -> "idle"

\* The image is rendered before the status row is written and committed.
NextPc_RenderFirst(pc) ==
    CASE pc = "loop" -> "readback"
      [] pc = "readback" -> "render"
      [] OTHER -> "idle"

\* The order of the steps that follow the loop over the countries.
NextPc(pc) ==
    CASE pc = "loop" -> "status"
      [] pc = "status" -> "commit"
      [] pc = "commit" -> "readback"
      [] pc = "readback" -> "render"
      [] OTHER -> "idle"

\* break instead of continue: the country's other currencies are left out.
NextPos_Break(list, ci, cj) == <<ci + 1, 1>>

\* The position after the pair (ci, cj) of the list has been processed.
NextPos(list, ci, cj) ==
    IF cj < Len(list[ci].currencies) THEN <<ci, cj + 1>> ELSE <<ci + 1, 1>>

LoopPc(list, ci) == IF ci > Len(list) THEN NextPc("loop") ELSE "loop"

AtPair(s) ==
    /\ sync[s].pc = "loop"
    /\ sync[s].list[sync[s].ci].currencies # <<>>

CurItem(s) == sync[s].list[sync[s].ci]
CurCode(s) == CurItem(s).currencies[sync[s].cj]

\* Session o has written a row of that name and not yet committed.
HoldsRow(o, name) ==
    \E k \in DOMAIN sync[o].tx :
        sync[o].tx[k].kind = "country" /\ sync[o].tx[k].values.name = name

\* No row is ever locked.
LockedByOther_Never(s, name) == FALSE

\* A row another session has written and not yet committed is locked.
LockedByOther(s, name) == \E o \in DOMAIN sync \ {s} : HoldsRow(o, name)

\* The Status row another session has written and not yet committed is
\* locked.
StatusLockedByOther(s) ==
    \E o \in DOMAIN sync \ {s} :
        \E k \in DOMAIN sync[o].tx :
            sync[o].tx[k].kind = "status"

\* The session when create_country has returned or raised.
Finished(s, exc, at) ==
    [IdleSync EXCEPT
        !.result = Response(exc, at, Len(sync[s].tx), sync[s].calls)]

\* The store as the session reads it: its own statements included.
View(s) == ApplyTx(Committed, sync[s].tx)

\* except Exception: await self.db.rollback(); raise
Raise(s, exc, at) ==
    /\ LET db == RollbackTx(Committed, sync[s].tx) IN
         /\ countries' = db.countries
         /\ status_rows' = db.status_rows
    /\ sync' = [sync EXCEPT ![s] = Finished(s, exc, at)]
    /\ UNCHANGED <<name_unique, image, gone, prev, repeat, succeeded, ndeletes>>

Begin(s) ==
    /\ sync[s].pc = "idle"
    /\ nsyncs < MaxSyncs
    /\ nsyncs' = nsyncs + 1
    /\ clock' = clock + 1

\* _fetch_country_data() raises
FetchCountriesFails(s) ==
    /\ Begin(s)
    /\ \E kind \in FetchFailures :
         /\ LET db == RollbackTx(Committed, sync[s].tx) IN
              /\ countries' = db.countries
              /\ status_rows' = db.status_rows
         /\ sync' = [sync EXCEPT ![s] =
                        Finished(s, FetchError(kind), "fetch_countries")]
    /\ UNCHANGED <<name_unique, image, gone, prev, repeat, succeeded, ndeletes>>

\* the country payload does not validate
CountriesMalformed(s) ==
    /\ Begin(s)
    /\ LET db == RollbackTx(Committed, sync[s].tx) IN
         /\ countries' = db.countries
         /\ status_rows' = db.status_rows
    /\ sync' = [sync EXCEPT ![s] =
                   Finished(s, ValidateError, "validate_countries")]
    /\ UNCHANGED <<name_unique, image, gone, prev, repeat, succeeded, ndeletes>>

\* the country list is fetched and validated
FetchCountriesOf(s, lists) ==
    /\ Begin(s)
    /\ \E list \in lists :
         sync' = [sync EXCEPT ![s] = [IdleSync EXCEPT
                     !.pc = LoopPc(list, 1), !.list = list,
                     !.now = clock + 1]]
    /\ UNCHANGED <<name_unique, countries, status_rows, image, gone, prev,
                   repeat, succeeded, ndeletes>>

FetchCountries(s) == FetchCountriesOf(s, CountryLists)

\* if not country_api_data.get("currencies"): continue
SkipCountry(s) ==
    /\ sync[s].pc = "loop"
    /\ CurItem(s).currencies = <<>>
    /\ sync' = [sync EXCEPT ![s].ci = sync[s].ci + 1, ![s].cj = 1,
                            ![s].pc = LoopPc(sync[s].list, sync[s].ci + 1)]
    /\ UNCHANGED <<name_unique, countries, status_rows, image, clock, gone,
                   prev, repeat, succeeded, nsyncs, ndeletes>>

\* fetch_rate(): _fetch_currency_data() raises
FetchRateFails(s) ==
    /\ AtPair(s)
    /\ \E kind \in FetchFailures : Raise(s, FetchError(kind), "fetch_rate")
    /\ UNCHANGED <<clock, nsyncs>>

\* fetch_rate(): the rates payload does not validate
RatesMalformed(s) ==
    /\ AtPair(s)
    /\ Raise(s, ValidateError, "validate_rates")
    /\ UNCHANGED <<clock, nsyncs>>

Advance(s, stmts, table, pairs) ==
    LET pos == NextPos(sync[s].list, sync[s].ci, sync[s].cj) IN
    sync' = [sync EXCEPT ![s].ci = pos[1], ![s].cj = pos[2],
                         ![s].pc = LoopPc(sync[s].list, pos[1]),
                         ![s].tx = sync[s].tx \o stmts,
                         ![s].tables = sync[s].tables \cup {table},
                         ![s].calls = sync[s].calls + 1,
                         ![s].rates = <<table>>,
                         ![s].rate = RateOf(table, CurCode(s)),
                         ![s].resolved = sync[s].resolved \cup pairs]

\* fetch_rate() returns None: if exchange_rate is None: continue
SkipPair(s) ==
    /\ AtPair(s)
    /\ \E table \in RateTables :
         /\ RateOf(table, CurCode(s)) = <<>>
         /\ Advance(s, <<>>, table, {})
    /\ UNCHANGED <<name_unique, countries, status_rows, image, clock, gone,
                   prev, repeat, succeeded, nsyncs, ndeletes>>

\* fetch_rate() returns 0.0: the division of compute_estimated_gdp raises
EstimateFails(s) ==
    /\ AtPair(s)
    /\ \E table \in RateTables :
         /\ RateOf(table, CurCode(s)) = <<0>>
         /\ Raise(s, "ZeroDivisionError", "estimate")
    /\ UNCHANGED <<clock, nsyncs>>

\* the upsert is refused: no unique index matches ON CONFLICT (name)
UpsertRefused(s) ==
    /\ AtPair(s)
    /\ ~name_unique
    /\ \E table \in RateTables :
         /\ RateOf(table, CurCode(s)) \notin {<<>>, <<0>>}
         /\ Raise(s, "ProgrammingError", "upsert")
    /\ UNCHANGED <<clock, nsyncs>>

\* the pair is estimated and its upsert executed in the transaction
UpsertPair(s) ==
    /\ AtPair(s)
    /\ name_unique
    /\ ~LockedByOther(s, CurItem(s).name)
    /\ \E table \in RateTables, f \in Factors :
         LET r == RateOf(table, CurCode(s)) IN
         /\ r \notin {<<>>, <<0>>}
         /\ LET gdp == compute_estimated_gdp(CurItem(s).population, r[1], f)
                v == CountryValues(CurItem(s), CurCode(s), r[1], gdp, sync[s].now)
            IN Advance(s, <<[kind |-> "country", values |-> v]>>, table,
                       {<<CurItem(s).name, CurCode(s)>>})
    /\ UNCHANGED <<name_unique, countries, status_rows, image, clock, gone,
                   prev, repeat, succeeded, nsyncs, ndeletes>>

\* the status upsert is executed in the transaction
StageStatus(s) ==
    /\ sync[s].pc = "status"
    /\ ~StatusLockedByOther(s)
    /\ sync' = [sync EXCEPT ![s].pc = NextPc("status"),
                  ![s].tx = sync[s].tx \o <<[kind |-> "status", at |-> sync[s].now]>>]
    /\ UNCHANGED <<name_unique, countries, status_rows, image, clock, gone,
                   prev, repeat, succeeded, nsyncs, ndeletes>>

\* The responses of the two upstream APIs to the sync of session s.
Upstream(s) == [list |-> sync[s].list, tables |-> sync[s].tables]

\* The country names the statements of a transaction write.
Written(tx) == {tx[k].values.name : k \in {j \in DOMAIN tx : tx[j].kind = "country"}}

\* await self.db.commit()
Commit(s) ==
    /\ sync[s].pc = "commit"
    /\ LET db == CommitTx(Committed, sync[s].tx) IN
         /\ countries' = db.countries
         /\ status_rows' = db.status_rows
         /\ prev' = <<Upstream(s)>>
         /\ repeat' = (prev = <<Upstream(s)>> /\ Cardinality(sync[s].tables) = 1)
    /\ gone' = gone \ {Lower(n) : n \in Written(sync[s].tx)}
    /\ sync' = [sync EXCEPT ![s].pc = NextPc("commit"), ![s].tx = <<>>]
    /\ UNCHANGED <<name_unique, image, clock, succeeded, nsyncs, ndeletes>>

\* execute() or commit() raises: the connection to the store is lost
StoreFails(s) ==
    /\ \/ sync[s].pc \in {"status", "commit", "readback"}
       \/ AtPair(s) /\ name_unique
    /\ Raise(s, "DBAPIError", IF sync[s].pc = "loop" THEN "upsert" ELSE sync[s].pc)
    /\ UNCHANGED <<clock, nsyncs>>

\* data = await self.status()
ReadBack(s) ==
    /\ sync[s].pc = "readback"
    /\ sync' = [sync EXCEPT ![s].pc = NextPc("readback"),
                            ![s].data = <<status(View(s))>>]
    /\ UNCHANGED <<name_unique, countries, status_rows, image, clock, gone,
                   prev, repeat, succeeded, nsyncs, ndeletes>>

\* Service.generate_image(...) saves the file; return True
Render(s) ==
    /\ sync[s].pc = "render"
    /\ image' = sync[s].data
    /\ sync' = [sync EXCEPT ![s] = Finished(s, "ok", "none")]
    /\ succeeded' = TRUE
    /\ UNCHANGED <<name_unique, countries, status_rows, clock, gone, prev,
                   repeat, nsyncs, ndeletes>>

\* Service.generate_image(...) raises
RenderFails(s) ==
    /\ sync[s].pc = "render"
    /\ Raise(s, "OSError", "render")
    /\ UNCHANGED <<clock, nsyncs>>

\* ------------------------------------------------------ other requests
\* The response of a handler: what it returns, or what the exception handler
\* registered for the exception it raises answers.
Answer(exc, body) ==
    [exc |-> exc, code |-> IF exc = "ok" THEN 200 ELSE HttpStatus(exc),
     body |-> body]

\* CountryResponseSchema.model_validate(row).model_dump()
CountryResponseSchema(r) ==
    [id |-> r.id, name |-> r.name, capital |-> r.capital, region |-> r.region,
     population |-> r.population, currency_code |-> r.currency_code,
     exchange_rate |-> r.exchange_rate, estimated_gdp |-> r.estimated_gdp,
     flag_url |-> r.flag_url, last_refreshed_at |-> r.last_refreshed_at]

\* GET /countries/{name}
get_country(rows, name) ==
    LET f == fetch_by_name(rows, name) IN
    Answer(f.exc, {CountryResponseSchema(r) : r \in f.row})

\* DELETE /countries/{name}
delete_country(rows, name) ==
    LET f == fetch_by_name(rows, name) IN
    Answer(f.exc, IF f.exc = "ok" THEN <<name>> ELSE <<>>)

\* GET /status: StatusSchema(**status) requires last_refreshed_at
get_status(db) ==
    LET st == status(db) IN
    IF st.last_refreshed_at = <<>>
    THEN Answer(ValidateError, <<>>)
    ELSE Answer("ok", <<st.total_countries, st.last_refreshed_at[1]>>)

\* if region is not None: / if currency is not None: an absent parameter
\* does not filter, an empty one does
Given(param) == param # <<>>

\* The columns compared as they are stored, without lower().
Matching_Exact(rows, region, currency) ==
    {r \in rows :
        /\ Given(region) => r.region # "None" /\ r.region = region[1]
        /\ Given(currency) => r.currency_code = currency[1]}

\* where(lower(Country.region) == region.lower()) and
\* where(lower(Country.currency_code) == currency.lower()); a NULL region
\* matches no value
Matching(rows, region, currency) ==
    {r \in rows :
        /\ Given(region) =>
              /\ r.region # "None"
              /\ Lower(Chars(r.region)) = Lower(Chars(region[1]))
        /\ Given(currency) =>
              Lower(Chars(r.currency_code)) = Lower(Chars(currency[1]))}

\* The orders in which the store may return a set of rows.
Orders(S) ==
    {q \in [1..Cardinality(S) -> S] :
        \A i \in DOMAIN q, j \in DOMAIN q : i # j => q[i] # q[j]}

\* Service.filter_search: the sequences the query may return; with a sort
\* value (any integer) the rows are ordered by estimated_gdp descending
filter_search(rows, region, currency, sort) ==
    {q \in Orders(Matching(rows, region, currency)) :
        sort # <<>> =>
            \A k \in 1..(Len(q) - 1) :
                q[k].estimated_gdp >= q[k + 1].estimated_gdp}

\* The validation of sort: Optional[int] from the query string.
IsInt(text) == text \in {"0", "1"}

IntOf(text) == IF text = "1" THEN 1 ELSE 0

\* The outcome of the validation of the query parameters of GET /countries:
\* region and currency take any string, sort an integer.
validate_query(sort) ==
    IF sort # <<>> /\ ~IsInt(sort[1]) THEN "RequestValidationError" ELSE "ok"

\* GET /countries: the query parameters are validated, then the rows of
\* filter_search are dumped through CountryResponseSchema
get_countries_filter(rows, region, currency, sort) ==
    IF validate_query(sort) # "ok"
    THEN Answer(validate_query(sort), {})
    ELSE Answer("ok",
                {[k \in DOMAIN q |-> CountryResponseSchema(q[k])] :
                    q \in filter_search(rows, region, currency,
                                        IF sort = <<>> THEN <<>>
                                        ELSE <<IntOf(sort[1])>>)})

\* GET /countries/image
country_image(img) == Answer(serve_file(img), img)

\* A row a running sync has written and not yet committed is locked.
Locked(name) == \E o \in DOMAIN sync : HoldsRow(o, name)

\* The DELETE has no WHERE clause.
DeleteRows_All(rows, found) == {}

\* The deletion is not committed.
DeleteRows_Keep(rows, found) == rows

\* await self.db.delete(country); await self.db.commit()
DeleteRows(rows, found) == rows \ found

\* The reading requests answer from the committed store and change nothing.
GetCountry ==
    /\ \E q \in QueryNames : get_country(countries, q).code \in {200, 404, 500}
    /\ UNCHANGED vars

ListCountries ==
    /\ \E sort \in SortParams :
          validate_query(sort) \in {"ok", "RequestValidationError"}
    /\ UNCHANGED vars

GetStatus ==
    /\ get_status(Committed).code \in {200, 400}
    /\ UNCHANGED vars

GetImage ==
    /\ country_image(image).code \in {200, 404}
    /\ UNCHANGED vars

\* DELETE /countries/{name}: the name resolves to one row, which is deleted
\* and the deletion committed
DeleteCountry ==
    /\ ndeletes < MaxDeletes
    /\ \E q \in QueryNames :
         LET f == fetch_by_name(countries, q) IN
         /\ delete_country(countries, q).code = 200
         /\ \A r \in f.row : ~Locked(r.name)
         /\ countries' = DeleteRows(countries, f.row)
         /\ gone' = gone \cup {Lower(q)}
    /\ ndeletes' = ndeletes + 1
    /\ prev' = <<>>
    /\ repeat' = FALSE
    /\ UNCHANGED <<name_unique, status_rows, image, clock, sync, succeeded,
                   nsyncs>>

\* DELETE /countries/{name}: fetch_by_name raises, nothing is deleted
DeleteFails ==
    /\ \E q \in QueryNames : delete_country(countries, q).code # 200
    /\ UNCHANGED vars

\* ------------------------------------------------------------------ Next
SyncStep(s) ==
    \/ FetchCountriesFails(s)
    \/ CountriesMalformed(s)
    \/ FetchCountries(s)
    \/ SkipCountry(s)
    \/ FetchRateFails(s)
    \/ RatesMalformed(s)
    \/ SkipPair(s)
    \/ EstimateFails(s)
    \/ UpsertRefused(s)
    \/ UpsertPair(s)
    \/ StageStatus(s)
    \/ Commit(s)
    \/ StoreFails(s)
    \/ ReadBack(s)
    \/ Render(s)
    \/ RenderFails(s)

Next ==
    \/ \E s \in Sessions : SyncStep(s)
    \/ GetCountry
    \/ ListCountries
    \/ DeleteCountry
    \/ DeleteFails
    \/ GetStatus
    \/ GetImage

Spec == Init /\ [][Next]_vars

\* ------------------------------------------- two syncs at the same time
\* Two requests, each with the session get_session() opens for it.
Both == {1, 2}

\* The country lists of the two syncs: they share two names, in either order.
ItemGh1 == Item(Gh, 3, "Accra", "Africa", <<"GHS">>, "gh.svg", TRUE)

ConcLists ==
    { <<ItemNg, ItemAq, ItemGh1>>,
      <<ItemGh1, ItemNg2>> }

InitConc ==
    /\ name_unique \in BOOLEAN
    /\ countries = {}
    /\ status_rows = {}
    /\ image = <<>>
    /\ clock = 0
    /\ sync = [s \in Both |-> IdleSync]
    /\ gone = {}
    /\ prev = <<>>
    /\ repeat = FALSE
    /\ succeeded = FALSE
    /\ nsyncs = 0
    /\ ndeletes = 0

FetchCountriesConc(s) == FetchCountriesOf(s, ConcLists)

\* The upsert of session s waits for the row lock session o holds.
Waits(s, o) ==
    /\ AtPair(s)
    /\ name_unique
    /\ \E table \in RateTables : RateOf(table, CurCode(s)) \notin {<<>>, <<0>>}
    /\ HoldsRow(o, CurItem(s).name)

\* Each of two sessions waits for a row the other has locked: the store
\* detects the deadlock and aborts the statement of one of them.
Deadlock(s) ==
    /\ \E o \in DOMAIN sync \ {s} : Waits(s, o) /\ Waits(o, s)
    /\ Raise(s, "DBAPIError", "deadlock")
    /\ UNCHANGED <<clock, nsyncs>>

\* The steps a sync takes when nothing fails.
Proceeds(s) ==
    \/ FetchCountriesConc(s)
    \/ SkipCountry(s)
    \/ SkipPair(s)
    \/ UpsertRefused(s)
    \/ UpsertPair(s)
    \/ StageStatus(s)
    \/ Commit(s)
    \/ ReadBack(s)
    \/ Render(s)
    \/ Deadlock(s)

Fails(s) ==
    \/ FetchCountriesFails(s)
    \/ CountriesMalformed(s)
    \/ FetchRateFails(s)
    \/ RatesMalformed(s)
    \/ EstimateFails(s)
    \/ StoreFails(s)
    \/ RenderFails(s)

NextConc == \E s \in Both : Proceeds(s) \/ Fails(s)

\* The steps the scheduling guarantees: the event loop runs every request
\* that can continue and the store answers every statement that does not
\* wait for a lock, and it ends a deadlock. A sync whose upsert may wait is
\* promised no step, and a failure may happen or not.
Scheduled(s) ==
    \/ Deadlock(s)
    \/ (~\E o \in Both : Waits(s, o)) /\ Proceeds(s)

SpecConc ==
    InitConc /\ [][NextConc]_vars /\ \A s \in Both : WF_vars(Scheduled(s))

\* ================================================================ claims
\* The step is a step of the sync of session s.
SyncMoves(s) == sync'[s] # sync[s] \/ (nsyncs' # nsyncs /\ sync[s].pc = "idle")

\* The step is the commit of the sync of session s.
IsCommit(s) == sync[s].pc = "commit" /\ sync'[s].pc = "readback"

\* The sync of session s ends with the step.
Ends(s) == SyncMoves(s) /\ sync'[s].pc = "idle"

StoreUnchanged == countries' = countries /\ status_rows' = status_rows

\* The values a transaction leaves for a country name: its last statement.
LastWrite(tx, name) ==
    tx[CHOOSE k \in DOMAIN tx :
          /\ tx[k].kind = "country" /\ tx[k].values.name = name
          /\ \A j \in DOMAIN tx :
                (tx[j].kind = "country" /\ tx[j].values.name = name) => j <= k].values

Holds(r, v) ==
    /\ r.name = v.name /\ r.capital = v.capital /\ r.region = v.region
    /\ r.population = v.population /\ r.currency_code = v.currency_code
    /\ r.exchange_rate = v.exchange_rate /\ r.estimated_gdp = v.estimated_gdp
    /\ r.flag_url = v.flag_url /\ r.independent = v.independent
    /\ r.last_refreshed_at = v.last_refreshed_at

\* Every statement of the transaction is visible in the store db.
AllVisible(tx, db) ==
    \A k \in DOMAIN tx :
        IF tx[k].kind = "country"
        THEN \E r \in db.countries : Holds(r, LastWrite(tx, tx[k].values.name))
        ELSE \E r \in db.status_rows :
                 r.name = "api_fetch" /\ r.last_refreshed_at = tx[k].at

\* C1: a sync is atomic. The only step of a sync that changes the committed
\* Country rows or the Status row is its commit, which makes every upsert of
\* the sync and the status update visible together; a sync that raises while
\* staging, writing the Status row or committing leaves the committed rows
\* as they were, drops its statements and answers with the error.
C1_SyncAtomic ==
    [][\A s \in Sessions :
         /\ IsCommit(s) =>
              AllVisible(sync[s].tx, Db(countries', status_rows'))
         /\ (SyncMoves(s) /\ ~IsCommit(s)) => StoreUnchanged
         /\ (Ends(s) /\ sync[s].pc \in {"loop", "status", "commit"}) =>
              /\ sync'[s].result.exc \notin {"ok", "none"}
              /\ sync'[s].result.code # 200
              /\ sync'[s].result.undone = Len(sync[s].tx)
              /\ sync'[s].tx = <<>>]_vars

\* A commit has failed with upserts and the status update staged, over a
\* store that holds the rows of an earlier sync.
C1_Witness ==
    \E s \in Sessions :
        /\ sync[s].pc = "idle"
        /\ sync[s].result.at = "commit"
        /\ sync[s].result.undone >= 2
        /\ countries # {}
        /\ status_rows # {}

\* C2: when the fetch of the country list fails, the sync raises
\* ServiceUnavailableError (503), has made no rate lookup, and changes neither
\* the Country rows nor the Status row nor the summary image.
C2_CountryFetchFails ==
    [][\A s \in Sessions :
         (Ends(s) /\ sync[s].pc = "idle"
                  /\ sync'[s].result.at = "fetch_countries") =>
            /\ sync'[s].result.exc = "ServiceUnavailableError"
            /\ sync'[s].result.code = 503
            /\ sync'[s].result.calls = 0
            /\ StoreUnchanged
            /\ image' = image]_vars

\* A sync has failed on the fetch of the country list over a store that
\* holds rows and an image.
C2_Witness ==
    \E s \in Sessions :
        /\ sync[s].pc = "idle"
        /\ sync[s].result.at = "fetch_countries"
        /\ sync[s].result.code = 503
        /\ countries # {}
        /\ image # <<>>

\* C3: a country without currencies and a pair whose code is absent from
\* the rates table are skipped: fetch_rate returns None exactly for an absent
\* code, the skip stages nothing, writes nothing and raises nothing, the loop
\* goes on with the next currency or country in order, and the commit of the
\* sync still writes the Status row and every resolved pair's country.
C3_SkipNotFail ==
    [][\A s \in Sessions :
         LET a == sync[s]
             b == sync'[s]
             item == a.list[a.ci]
             onward == /\ b.pc = (IF b.ci > Len(a.list) THEN "status" ELSE "loop")
                       /\ b.tx = a.tx
                       /\ StoreUnchanged
         IN
         /\ (SyncMoves(s) /\ a.pc = "loop" /\ item.currencies = <<>>) =>
              /\ onward
              /\ b.ci = a.ci + 1 /\ b.cj = 1 /\ b.calls = a.calls
         /\ (SyncMoves(s) /\ a.pc = "loop" /\ b.pc # "idle"
               /\ item.currencies # <<>>) =>
              /\ b.calls = a.calls + 1
              /\ b.rates # <<>>
              /\ (b.rate = <<>>) <=> (item.currencies[a.cj] \notin DOMAIN b.rates[1])
              /\ (b.rate = <<>>) =>
                   /\ onward
                   /\ IF a.cj < Len(item.currencies)
                      THEN b.ci = a.ci /\ b.cj = a.cj + 1
                      ELSE b.ci = a.ci + 1 /\ b.cj = 1
         /\ IsCommit(s) =>
              /\ status(Db(countries', status_rows')).last_refreshed_at = <<a.now>>
              /\ \A p \in a.resolved : \E r \in countries' : r.name = p[1]]_vars

\* A sync has committed a list with a country without currencies and a pair
\* without rate: the other pair is written and the Status row is updated.
C3_Witness ==
    \E s \in Sessions :
        /\ sync[s].pc = "readback"
        /\ \E k \in DOMAIN sync[s].list : sync[s].list[k].currencies = <<>>
        /\ sync[s].calls > Cardinality(sync[s].resolved)
        /\ sync[s].resolved # {}
        /\ \A p \in sync[s].resolved : \E r \in countries : r.name = p[1]
        /\ status(Committed).last_refreshed_at = <<sync[s].now>>

\* The country names of the pairs of the sync that had a resolvable rate.
ResolvedNames(s) == {p[1] : p \in sync[s].resolved}

\* C4 as stated: when a refresh commits, the total_countries of the status
\* query is the number of country names among that sync's resolvable pairs,
\* whatever rows the store held before.
C4_TotalIsResolved ==
    [][\A s \in Sessions :
         IsCommit(s) =>
            status(Db(countries', status_rows')).total_countries
                = Cardinality(ResolvedNames(s))]_vars

\* C4 amended: when a refresh commits, the total_countries of the status
\* query is the number of distinct country names among the rows the store
\* held before the commit and that sync's resolvable pairs.
C4_TotalCountsStoredAndResolved ==
    [][\A s \in Sessions :
         IsCommit(s) =>
            status(Db(countries', status_rows')).total_countries
                = Cardinality({r.name : r \in countries} \cup ResolvedNames(s))]_vars

\* A sync has committed over a store holding a row from an earlier sync that
\* is not in its list.
C4_Witness ==
    \E s \in Sessions :
        /\ sync[s].pc = "readback"
        /\ sync[s].resolved # {}
        /\ \E r \in countries : r.name \notin ResolvedNames(s)
        /\ status(Committed).total_countries > Cardinality(ResolvedNames(s))

\* The commit of session s repeats the sync committed just before it: the
\* same country list and the same, single rates table.
Repeats(s) ==
    /\ IsCommit(s)
    /\ prev = <<Upstream(s)>>
    /\ Cardinality(sync[s].tables) = 1

\* C5 as stated: a refresh repeated with identical upstream responses leaves
\* the row count unchanged and every field of every row but last_refreshed_at.
C5_OnlyTimestampChanges ==
    [][\A s \in Sessions :
         Repeats(s) =>
            /\ Cardinality(countries') = Cardinality(countries)
            /\ \A r \in countries : \E n \in countries' :
                  n = [r EXCEPT !.last_refreshed_at = n.last_refreshed_at]]_vars

\* C5 amended: a refresh repeated with identical upstream responses leaves
\* the row count unchanged and every field of every row but
\* last_refreshed_at and estimated_gdp, which is drawn again.
C5_RepeatKeepsRows ==
    [][\A s \in Sessions :
         Repeats(s) =>
            /\ Cardinality(countries') = Cardinality(countries)
            /\ \A r \in countries : \E n \in countries' :
                  n = [r EXCEPT !.last_refreshed_at = n.last_refreshed_at,
                                !.estimated_gdp = n.estimated_gdp]]_vars

\* A sync that repeats the one before it has committed rows.
C5_Witness ==
    /\ repeat
    /\ countries # {}
    /\ \E s \in Sessions : sync[s].pc = "readback" /\ sync[s].resolved # {}

\* C6: when the status read-back or the rendering of the image fails after
\* the commit, the sync answers with a failure, its rollback has nothing to
\* drop, and the committed Country rows and the Status row written by the
\* sync stay as they are.
C6_LateFailureKeepsData ==
    [][\A s \in Sessions :
         (Ends(s) /\ sync[s].pc \in {"readback", "render"}
                  /\ sync'[s].result.exc # "ok") =>
            /\ sync'[s].result.code \notin {0, 200}
            /\ sync[s].tx = <<>>
            /\ sync'[s].result.undone = 0
            /\ StoreUnchanged
            /\ status(Db(countries', status_rows')).last_refreshed_at
                   = <<sync[s].now>>]_vars

\* The rendering has failed after a commit: the rows and the Status row of
\* that sync are in the store and no image exists.
C6_Witness ==
    \E s \in Sessions :
        /\ sync[s].pc = "idle"
        /\ sync[s].result.at = "render"
        /\ sync[s].result.code = 500
        /\ \E r \in countries : r.last_refreshed_at = clock
        /\ status(Committed).last_refreshed_at = <<clock>>
        /\ image = <<>>

\* C7 as stated: every failure while talking to an upstream API (the GET or
\* the validation of the payload, country list or rates) ends the sync with
\* ServiceUnavailableError, answered 503.
C7_UpstreamFailureIs503 ==
    \A s \in Sessions :
        sync[s].result.at \in {"fetch_countries", "validate_countries",
                               "fetch_rate", "validate_rates"} =>
            /\ sync[s].result.exc = "ServiceUnavailableError"
            /\ sync[s].result.code = 503

\* C8 as stated: get_country returns the row whose name matches ignoring
\* case whenever one is stored, answers 404 exactly when none is, and never
\* fails otherwise.
C8_GetIgnoresCase ==
    \A q \in QueryNames :
        LET m == NameMatches(countries, q)
            a == get_country(countries, q)
        IN /\ a.code \in {200, 404}
           /\ (a.code = 404) <=> (m = {})
           /\ m # {} => \E r \in m : a.body = {CountryResponseSchema(r)}

\* C9: a name deleted with success is answered 404 by get_country in every
\* letter case until a sync commits a row for it again; a delete of a name
\* no row matches is answered 404; and a Country row leaves the store only
\* by a delete answered 200, which removes the rows matching its name.
C9_DeleteThenNotFound ==
    /\ [](\A q \in QueryNames :
            /\ Lower(q) \in gone => get_country(countries, q).code = 404
            /\ NameMatches(countries, q) = {} =>
                  delete_country(countries, q).code = 404)
    /\ [][(\E r \in countries : r.id \notin {n.id : n \in countries'}) =>
            /\ ndeletes' = ndeletes + 1
            /\ \E q \in QueryNames :
                  /\ delete_country(countries, q).code = 200
                  /\ countries' = countries \ NameMatches(countries, q)
                  /\ Lower(q) \in gone']_vars

\* A country has been deleted and is answered 404 while other rows remain.
C9_Witness ==
    /\ ndeletes > 0
    /\ countries # {}
    /\ \E q \in QueryNames :
          /\ Lower(q) \in gone
          /\ get_country(countries, q).code = 404
          /\ delete_country(countries, q).code = 404

\* C10: the image request is answered 404 as long as no sync has returned
\* with success and 200 ever after; the image file is written only by the
\* last step of a sync that has committed its data and then returns True.
C10_ImageAfterSuccess ==
    /\ [](/\ ~succeeded => country_image(image).code = 404
          /\ succeeded => image # <<>> /\ country_image(image).code = 200)
    /\ [][image' # image =>
            \E s \in Sessions :
               /\ sync[s].pc = "render"
               /\ sync[s].tx = <<>>
               /\ status(Committed).last_refreshed_at = <<sync[s].now>>
               /\ sync'[s].result.exc = "ok"
               /\ succeeded']_vars

\* A sync has returned True and a later one has failed: the image is served.
C10_Witness ==
    /\ succeeded
    /\ country_image(image).code = 200
    /\ \E s \in Sessions : sync[s].result.code \in {400, 500, 503}

\* The sequence is in non-increasing order.
Descending(seq) == \A k \in 1..(Len(seq) - 1) : seq[k] >= seq[k + 1]

\* C11 as stated: in every store state, also before any sync, the status
\* query succeeds with total_countries the number of rows, last_refreshed_at
\* the Status row's value (null without one) and the min(5, count) largest
\* estimated_gdp values in descending order.
C11_StatusAlwaysAnswers ==
    LET st == status(Committed)
        a == get_status(Committed)
        n == Cardinality(countries)
    IN /\ a.code = 200
       /\ st.total_countries = n
       /\ status_rows = {} => st.last_refreshed_at = <<>>
       /\ \A r \in status_rows : st.last_refreshed_at = <<r.last_refreshed_at>>
       /\ Len(st.top_5) = (IF n < 5 THEN n ELSE 5)
       /\ Descending(st.top_5)
       /\ \A r \in countries :
             \/ \E k \in DOMAIN st.top_5 : st.top_5[k] = r.estimated_gdp
             \/ \A k \in DOMAIN st.top_5 : st.top_5[k] >= r.estimated_gdp

\* C14: there is never more than one Status row named "api_fetch"; the commit
\* of a sync leaves one; a Status row, once there, stays; and the Status rows
\* change only in the commit of a sync.
C14_StatusSingleton ==
    /\ [](Cardinality({r \in status_rows : r.name = "api_fetch"}) <= 1)
    /\ [][/\ \A s \in Sessions :
                IsCommit(s) => \E r \in status_rows' :
                                  /\ r.name = "api_fetch"
                                  /\ r.last_refreshed_at = sync[s].now
          /\ status_rows # {} => status_rows' # {}
          /\ status_rows' # status_rows => \E s \in Sessions : IsCommit(s)]_vars

\* Two syncs have committed and a country has been deleted: one Status row,
\* written by the second sync.
C14_Witness ==
    /\ ndeletes > 0
    /\ clock = 2
    /\ status_rows = {[name |-> "api_fetch", last_refreshed_at |-> 2]}

\* C16: the estimated_gdp a sync stages or stores for a population P and a
\* rate R > 0 lies in [1000 * P / R, 2000 * P / R].
GdpInRange(v) ==
    v.exchange_rate > 0 =>
        /\ 1000 * v.population <= v.estimated_gdp * v.exchange_rate
        /\ v.estimated_gdp * v.exchange_rate <= 2000 * v.population

C16_GdpInRange ==
    /\ \A r \in countries : GdpInRange(r)
    /\ \A s \in Sessions : \A k \in DOMAIN sync[s].tx :
          sync[s].tx[k].kind = "country" => GdpInRange(sync[s].tx[k].values)

\* Rows estimated with the rates 1 and 2 for a positive population are stored.
C16_Witness ==
    /\ \E r \in countries : r.exchange_rate = 2 /\ r.population > 0
    /\ \E r \in countries : r.exchange_rate = 1 /\ r.population > 0

\* The positions of the currencies of an item that the sync resolved.
ResolvedAt(s, item) ==
    {j \in DOMAIN item.currencies : <<item.name, item.currencies[j]>> \in sync[s].resolved}

\* C17: when a sync commits, every country of its list with a resolvable
\* currency has exactly one row under its name; the row holds the code, the
\* rate and the estimate of the last resolvable currency of the country, the
\* other fields of the list item, and the time of the sync.
C17_LastCurrencyWins ==
    [][\A s \in Sessions :
         IsCommit(s) =>
           \A k \in DOMAIN sync[s].list :
              LET item == sync[s].list[k]
                  at == ResolvedAt(s, item)
              IN at # {} =>
                 LET j == CHOOSE x \in at : \A y \in at : y <= x
                     w == LastWrite(sync[s].tx, item.name)
                     rows == {r \in countries' : r.name = item.name}
                 IN /\ Cardinality(rows) = 1
                    /\ w.currency_code = item.currencies[j]
                    /\ \A r \in rows :
                          /\ r.currency_code = item.currencies[j]
                          /\ r.exchange_rate = w.exchange_rate
                          /\ r.estimated_gdp = w.estimated_gdp
                          /\ r.capital = item.capital
                          /\ r.region = item.region
                          /\ r.population = item.population
                          /\ r.flag_url = item.flag
                          /\ r.independent = item.independent
                          /\ r.last_refreshed_at = sync[s].now]_vars

\* A sync has committed a country with two resolved currencies over its row
\* of an earlier sync: the row holds the second currency.
C17_Witness ==
    \E s \in Sessions :
        /\ sync[s].pc = "readback"
        /\ sync[s].now = 2
        /\ {<<Gh, "GHS">>, <<Gh, "USD">>} \subseteq sync[s].resolved
        /\ \E r \in countries :
              r.name = Gh /\ r.currency_code = "USD" /\ r.id = NewId(Gh, 1)
                          /\ r.last_refreshed_at = 2

\* C18 as stated: no two rows have the same name, the store enforces it
\* with a unique index on name, and the upsert of a sync is never refused.
C18_NameUniqueEnforced ==
    /\ \A r1 \in countries, r2 \in countries : r1.name = r2.name => r1 = r2
    /\ \A s \in Sessions : sync[s].result.exc # "ProgrammingError"
    /\ (\E s \in Sessions : sync[s].tx # <<>>) => name_unique

\* C19 as stated: every stored row has exchange_rate > 0, because a sync
\* that resolves a zero or negative rate fails and commits nothing.
C19_RatePositive ==
    /\ \A r \in countries : r.exchange_rate > 0
    /\ \A s \in Sessions : \A k \in DOMAIN sync[s].tx :
          sync[s].tx[k].kind = "country" => sync[s].tx[k].values.exchange_rate > 0

\* C20: a delete answered 200 removes the one row matching its name
\* ignoring case and leaves every other row, the Status row and the image;
\* a step that is neither a delete answered 200 nor a step of a sync (a read
\* or a refused delete) changes nothing in the store or on disk.
C20_DeleteFrame ==
    [][/\ ndeletes' # ndeletes =>
            /\ \E q \in QueryNames : \E r \in countries :
                  /\ {x \in countries : Lower(x.name) = Lower(q)} = {r}
                  /\ countries' = countries \ {r}
            /\ status_rows' = status_rows
            /\ image' = image
       /\ (ndeletes' = ndeletes /\ \A s \in Sessions : ~SyncMoves(s)) =>
            /\ StoreUnchanged
            /\ image' = image]_vars

\* A country has been deleted; another row, the Status row and the image
\* are still there.
C20_Witness ==
    /\ ndeletes > 0
    /\ Cardinality(countries) >= 2
    /\ status_rows # {}
    /\ image # <<>>

\* The elements of a sequence.
Range(seq) == {seq[k] : k \in DOMAIN seq}

\* C12: the list query with accepted parameters answers 200 with exactly
\* the rows whose region and currency_code equal the given values ignoring
\* case, each once; a filter that is not given does not apply; without a
\* match (a region no row has, an empty region) the list is empty.
C12_FilterExact ==
    \A region \in RegionParams, currency \in CurrencyParams,
       sort \in {<<>>, <<"1">>} :
        LET a == get_countries_filter(countries, region, currency, sort)
            expected ==
                {CountryResponseSchema(r) : r \in
                    {x \in countries :
                        /\ region # <<>> =>
                              /\ x.region # "None"
                              /\ Lower(Chars(x.region)) = Lower(Chars(region[1]))
                        /\ currency # <<>> =>
                              Lower(Chars(x.currency_code)) = Lower(Chars(currency[1]))}}
        IN /\ a.code = 200
           /\ a.body # {}
           /\ \A q \in a.body :
                 Range(q) = expected /\ Len(q) = Cardinality(expected)

\* Rows of regions "Africa" and "africa" are stored: region=AFRICA with
\* currency=usd selects some of them and not all, region=AFRICA selects
\* more, and region=Polar answers 200 with the empty list.
C12_Witness ==
    LET both == get_countries_filter(countries, <<"AFRICA">>, <<"usd">>, <<>>)
        one == get_countries_filter(countries, <<"AFRICA">>, <<>>, <<>>)
        none == get_countries_filter(countries, <<"Polar">>, <<>>, <<>>)
    IN /\ \E r \in countries : r.region = "africa"
       /\ \E r \in countries : r.region = "Africa"
       /\ \E q \in both.body : Len(q) = 1
       /\ \E q \in one.body : Len(q) = Cardinality(countries) /\ Len(q) >= 2
       /\ none.code = 200 /\ none.body = {<<>>}

\* C13 as stated: whatever the value of sort, the list query answers 200,
\* and with sort present the rows are in non-increasing estimated_gdp order.
C13_AnySortAccepted ==
    \A sort \in SortParams :
        LET a == get_countries_filter(countries, <<>>, <<>>, sort)
        IN /\ a.code = 200
           /\ sort # <<>> =>
                 \A q \in a.body :
                     \A k \in 1..(Len(q) - 1) :
                         q[k].estimated_gdp >= q[k + 1].estimated_gdp

\* C15: two syncs, each with its own session, interleaved in any order.
\* No two rows ever have the same name; a row written by a sync that has
\* not committed is written by no other sync, so that the sync that writes
\* a name last is the one that commits it last; the commit of a sync makes
\* all its upserts and its Status update visible, with the values it
\* staged, and no other step of a sync changes the store; every sync that
\* has started returns or raises.
C15_ConcurrentSyncs ==
    /\ [](\A r1 \in countries, r2 \in countries : r1.name = r2.name => r1 = r2)
    /\ [](\A s \in Both, o \in Both :
             s # o => Written(sync[s].tx) \cap Written(sync[o].tx) = {})
    /\ [][\A s \in Both :
            /\ IsCommit(s) =>
                 /\ AllVisible(sync[s].tx, Db(countries', status_rows'))
                 /\ status_rows' =
                       {[name |-> "api_fetch", last_refreshed_at |-> sync[s].now]}
            /\ (SyncMoves(s) /\ ~IsCommit(s)) => StoreUnchanged]_vars
    /\ \A s \in Both : (sync[s].pc # "idle") ~> (sync[s].pc = "idle")

\* One sync has staged two rows and its Status update and is about to
\* commit, while the upsert of the other sync waits for one of these rows.
C15_Witness ==
    \E s \in Both, o \in Both :
        /\ Waits(s, o)
        /\ sync[o].pc = "commit"
        /\ Cardinality(Written(sync[o].tx)) = 2

====
